---- MODULE Spec2Model ----
(***************************************************************************)
(* A model of gsea_api: the gene-set collection (GeneSet, GeneSets), its   *)
(* flat-file (GMT) serialisation and the MolecularSignaturesDatabase       *)
(* resolver.  GeneSet objects live on a heap and collections hold object   *)
(* ids, so that sharing between a collection and the collections derived   *)
(* from it is visible.  Python strings are TLA+ strings; an optional value *)
(* (None or v) is the sequence <<>> or <<v>>.                              *)
(***************************************************************************)
EXTENDS Integers, Sequences, FiniteSets, TLC

\* ------------------------------------------------------------------ bounds
\* the longest list of gene sets handed to GeneSets(...)
MaxSets == 3
\* the number of GeneSets instances alive in one run
MaxColls == 2

\* the gene-set names and gene identifiers the inputs are drawn from
Names == {"a", "b"}
Genes == {"x", "y"}
\* the gene universes handed to subset(): one gene lies outside every gene set
Universes == SUBSET (Genes \cup {"z"})

VARIABLES
    heap,       \* the GeneSet objects: heap[id] is the object with that id
    colls,      \* the GeneSets instances, in order of creation
    files,      \* the gene-set files: path -> sequence of lines (a line: its tab-separated fields)
    by_name_cache,   \* the lru_cache of GeneSets.gene_sets_by_name: its (key, value) entries
    all_genes_cache, \* the lru_cache of GeneSets.all_genes: its (key, value) entries
    warnings,   \* the warnings the last call emitted, in order
    last,       \* the last call: its name, arguments and outcome
    disk,       \* the paths that exist where the database is looked for
    msigdb,     \* the MolecularSignaturesDatabase instance, if one was made
    frames,     \* the DataFrame objects: frames[id] is the table with that id
    esets       \* the ExpressionSet instances, in order of creation

vars == <<heap, colls, files, by_name_cache, all_genes_cache, warnings, last, disk, msigdb,
          frames, esets>>

\* ------------------------------------------------------------ Python helpers
NoneV == <<>>
Some(v) == <<v>>

Range(s) == {s[i] : i \in 1..Len(s)}

Min(a, b) == IF a <= b THEN a ELSE b

\* the elements of a set of integers in increasing order
RECURSIVE SortedSeq(_)
SortedSeq(I) ==
    IF I = {} THEN <<>>
    ELSE LET m == CHOOSE x \in I : \A y \in I : x <= y
         IN <<m>> \o SortedSeq(I \ {m})

\* the elements s[i], i in I, in the order of s
Pick(s, I) == LET idx == SortedSeq(I) IN [k \in 1..Len(idx) |-> s[idx[k]]]

\* some enumeration of a set, where the order is not observed
RECURSIVE SetToSeq(_)
SetToSeq(S) ==
    IF S = {} THEN <<>>
    ELSE LET x == CHOOSE y \in S : TRUE IN <<x>> \o SetToSeq(S \ {x})

\* the orders in which a Python set (or frozenset) may be iterated
Perms(S) ==
    {p \in [1..Cardinality(S) -> S] : \A i, j \in 1..Cardinality(S) : i /= j => p[i] /= p[j]}

\* the number of times x occurs in s
Count(s, x) == Cardinality({i \in 1..Len(s) : s[i] = x})

\* sep.join(strs)
RECURSIVE Join(_, _)
Join(strs, sep) ==
    IF strs = <<>> THEN ""
    ELSE IF Len(strs) = 1 THEN strs[1]
    ELSE strs[1] \o sep \o Join(Tail(strs), sep)

\* bool(s) of a str-or-False argument: False and '' are both falsy
Truthy(s) == s /= ""

\* ------------------------------------------------------------------ GeneSet
\* the count of every gene of the collection, duplicated or not
RedundantGenesAll(genes) == [g \in Range(genes) |-> Count(genes, g)]

\* {gene: count for gene, count in Counter(genes).items() if count > 1}
RedundantGenes(genes) == [g \in {x \in Range(genes) : Count(genes, x) > 1} |-> Count(genes, g)]

\* GeneSet.__init__: genes is the collection as iterated
GeneSetInit(name, genes, description, warn_if_empty, representativeness) ==
    LET gset == Range(genes)
        dup == Len(genes) /= Cardinality(gset)
        counts == RedundantGenes(genes)
    IN [obj |-> [name |-> name,
                 genes |-> gset,
                 description |-> description,
                 representativeness |-> representativeness,
                 redundant_genes |-> IF dup THEN Some(counts) ELSE NoneV],
        warns |-> (IF warn_if_empty /\ gset = {}
                   THEN <<[kind |-> "gene_set_is_empty", name |-> name]>>
                   ELSE <<>>)
                  \o
                  (IF dup
                   THEN <<[kind |-> "non_unique_genes", name |-> name, redundant_genes |-> counts]>>
                   ELSE <<>>)]

\* GeneSet.is_empty
IsEmpty(o) == Cardinality(o.genes) = 0

\* GeneSet.__eq__ / __hash__: name and gene content
GeneSetKey(o) == <<o.name, o.genes>>

\* a Python set built from the objects s (in this order): of equal elements the
\* first inserted stays
DedupFirst(h, s) ==
    Pick(s, {i \in 1..Len(s) : \A j \in 1..(i - 1) : GeneSetKey(h[s[j]]) /= GeneSetKey(h[s[i]])})

\* ----------------------------------------------------------------- GeneSets
MinDuplicates == 1
VerbatimLimit == 3
EmptyNamesLimit == 5
DefaultCollapseLimit == 10

\* GeneSets.group_identical(key='name'): a dict, in insertion order
GroupIdentical(h, gs) ==
    LET keys == [i \in 1..Len(gs) |-> h[gs[i]].genes]
        firsts == SortedSeq({i \in 1..Len(gs) : \A j \in 1..(i - 1) : keys[j] /= keys[i]})
    IN [k \in 1..Len(firsts) |->
          [genes |-> keys[firsts[k]],
           names |-> LET same == Pick(gs, {i \in 1..Len(gs) : keys[i] = keys[firsts[k]]})
                     IN [m \in 1..Len(same) |-> h[same[m]].name]]]

\* the test of GeneSets.find_redundant on one group
IsRedundantGroup(g) == Len(g.names) > MinDuplicates

\* GeneSets.find_redundant(key='name', min_duplicates=1)
FindRedundant(h, gs) == SelectSeq(GroupIdentical(h, gs), IsRedundantGroup)

\* len(sum(redundant.values(), []))
RECURSIVE RedundantN(_)
RedundantN(redundant) ==
    IF redundant = <<>> THEN 0
    ELSE Len(redundant[1].names) + RedundantN(Tail(redundant))

\* any(redundant): the truth values of the dict's keys, which are frozensets
AnyRedundant(redundant) == \E i \in 1..Len(redundant) : redundant[i].genes /= {}

\* the redundancy warning's message with the number of groups deciding its style
RedundancyMessageByGroups(redundant) ==
    IF Len(redundant) > VerbatimLimit
    THEN [kind |-> "redundant", style |-> "summary",
          groups |-> Len(redundant), affected |-> RedundantN(redundant),
          identical |-> <<>>]
    ELSE [kind |-> "redundant", style |-> "verbatim",
          groups |-> 0, affected |-> 0,
          identical |-> [i \in 1..Len(redundant) |->
                           [names |-> redundant[i].names,
                            size |-> Cardinality(redundant[i].genes)]]]

\* the redundancy warning's message
RedundancyMessage(redundant) ==
    IF RedundantN(redundant) > VerbatimLimit
    THEN [kind |-> "redundant", style |-> "summary",
          groups |-> Len(redundant), affected |-> RedundantN(redundant),
          identical |-> <<>>]
    ELSE [kind |-> "redundant", style |-> "verbatim",
          groups |-> 0, affected |-> 0,
          identical |-> [i \in 1..Len(redundant) |->
                           [names |-> redundant[i].names,
                            size |-> Cardinality(redundant[i].genes)]]]

\* whether the constructor warns about redundancy
WarnsRedundant(redundant, allow_redundant, collapse_redundant) ==
    /\ ~allow_redundant
    /\ AnyRedundant(redundant)
    /\ ~Truthy(collapse_redundant)

\* empty_gene_sets: a set of the empty members
EmptyGeneSets(h, inp) == Range(DedupFirst(h, SelectSeq(inp, LAMBDA id : IsEmpty(h[id]))))

\* whether the constructor replaces gene_sets by set(gene_sets) - empty_gene_sets
RemovesEmpty(h, inp, remove_empty) == Cardinality(EmptyGeneSets(h, inp)) /= 0 /\ remove_empty

\* set(gene_sets) - empty_gene_sets
WithoutEmpty(h, inp) ==
    {id \in Range(DedupFirst(h, inp)) :
        \A e \in EmptyGeneSets(h, inp) : GeneSetKey(h[e]) /= GeneSetKey(h[id])}

\* the orders in which gene_sets may be iterated after the empty-set step
KeptOrders(h, inp, remove_empty) ==
    IF RemovesEmpty(h, inp, remove_empty) THEN Perms(WithoutEmpty(h, inp)) ELSE {inp}

\* the empty-set step warning without the test that there are empty gene sets
EmptyWarningUnguarded(h, inp, remove_empty) ==
    IF remove_empty
    THEN <<[kind |-> "empty_removed", count |-> Cardinality(EmptyGeneSets(h, inp)), names |-> {}]>>
    ELSE <<[kind |-> "empty_present", count |-> Cardinality(EmptyGeneSets(h, inp)),
            names |-> {h[e].name : e \in EmptyGeneSets(h, inp)}]>>

\* the warning of the empty-set step
EmptyWarning(h, inp, remove_empty) ==
    LET empty == EmptyGeneSets(h, inp)
    IN IF Cardinality(empty) = 0 THEN <<>>
       ELSE IF remove_empty
       THEN <<[kind |-> "empty_removed", count |-> Cardinality(empty), names |-> {}]>>
       ELSE <<[kind |-> "empty_present", count |-> Cardinality(empty),
               names |-> IF Cardinality(empty) <= EmptyNamesLimit
                         THEN {h[e].name : e \in empty} ELSE {}]>>

\* the name of a collapsed gene set
CollapsedName(names, sep, collapse_limit) ==
    Join(SubSeq(names, 1, Min(collapse_limit, Len(names))), sep)
    \o (IF Len(names) > collapse_limit
        THEN sep \o "... " \o ToString(Len(names) - collapse_limit) \o " more"
        ELSE "")

\* the gene sets the collapsing step synthesises, one per redundant group
CollapsedGeneSets(redundant, sep, collapse_limit) ==
    [i \in 1..Len(redundant) |->
        GeneSetInit(CollapsedName(redundant[i].names, sep, collapse_limit),
                    SetToSeq(redundant[i].genes),
                    Some(Join(redundant[i].names, sep)),
                    TRUE, NoneV)]

\* the warnings of the collapsing step
RECURSIVE FlatWarns(_)
FlatWarns(made) == IF made = <<>> THEN <<>> ELSE made[1].warns \o FlatWarns(Tail(made))

CollapseWarnings(redundant, sep, collapse_limit) ==
    LET over == SelectSeq(redundant, LAMBDA g : Len(g.names) > collapse_limit)
    IN [i \in 1..Len(over) |->
          [kind |-> "collapse_limit", count |-> Len(over[i].names),
           examples |-> SubSeq(over[i].names, 1, Min(3, Len(over[i].names)))]]
       \o FlatWarns(CollapsedGeneSets(redundant, sep, collapse_limit))
       \o <<[kind |-> "collapsed", count |-> RedundantN(redundant), groups |-> Len(redundant)]>>

\* whether the constructor collapses
Collapses(redundant, collapse_redundant) == Truthy(collapse_redundant) /\ AnyRedundant(redundant)

\* GeneSets.__init__ on the heap h.  inp is the gene_sets argument in iteration
\* order, kept the iteration order of gene_sets after the empty-set step.
GeneSetsInit(h, inp, name, allow_redundant, remove_empty, path, collapse_redundant, collapse_limit, kept) ==
    LET redundant == FindRedundant(h, inp)
        collapsing == Collapses(redundant, collapse_redundant)
        made == CollapsedGeneSets(redundant, collapse_redundant, collapse_limit)
        non_redundant ==
            SelectSeq(kept, LAMBDA id : \A i \in 1..Len(redundant) : redundant[i].genes /= h[id].genes)
        collapsed == [i \in 1..Len(made) |-> Len(h) + i]
    IN [heap |-> IF collapsing THEN h \o [i \in 1..Len(made) |-> made[i].obj] ELSE h,
        coll |-> [gene_sets |-> IF collapsing THEN collapsed \o non_redundant ELSE kept,
                  name |-> name,
                  path |-> path,
                  empty_gene_sets |-> {h[e].name : e \in EmptyGeneSets(h, inp)},
                  redundant |-> redundant],
        warns |-> (IF WarnsRedundant(redundant, allow_redundant, collapse_redundant)
                   THEN <<RedundancyMessage(redundant)>> ELSE <<>>)
                  \o EmptyWarning(h, inp, remove_empty)
                  \o (IF collapsing
                      THEN CollapseWarnings(redundant, collapse_redundant, collapse_limit)
                      ELSE <<>>)]

\* the state after a call that made a collection
Made(r, call) ==
    /\ heap' = r.heap
    /\ colls' = Append(colls, r.coll)
    /\ warnings' = r.warns
    /\ last' = call

\* the gene sets a caller builds with GeneSet(name, genes, warn_if_empty=False)
InputGeneSets == [name : Names, genes : SUBSET Genes]
InputLists == UNION {[1..n -> InputGeneSets] : n \in 0..MaxSets}

\* longer lists of gene sets of fewer different contents: two redundant groups
\* need four gene sets
MaxWideSets == 4
WideInputGeneSets == [name : Names, genes : {{}, {"x"}, {"y"}}]
WideLists == UNION {[1..n -> WideInputGeneSets] : n \in 0..MaxWideSets}

\* GeneSets(gene_sets, allow_redundant=.., remove_empty=.., collapse_redundant=..,
\* collapse_limit=..) on a list of new gene sets, taken from lists
ConstructFrom(lists) ==
    /\ colls = <<>>
    /\ \E vals \in lists, allow_redundant \in BOOLEAN, remove_empty \in BOOLEAN,
          collapse_redundant \in {"", "|"}, collapse_limit \in {1, DefaultCollapseLimit} :
        LET h == heap \o [i \in 1..Len(vals) |->
                            GeneSetInit(vals[i].name, SetToSeq(vals[i].genes), NoneV, FALSE, NoneV).obj]
            inp == [i \in 1..Len(vals) |-> Len(heap) + i]
        IN \E kept \in KeptOrders(h, inp, remove_empty) :
            Made(GeneSetsInit(h, inp, "", allow_redundant, remove_empty, NoneV,
                              collapse_redundant, collapse_limit, kept),
                 [op |-> "GeneSets", src |-> 0, res |-> Len(colls) + 1, err |-> "",
                  input |-> inp, allow_redundant |-> allow_redundant,
                  remove_empty |-> remove_empty, collapse_redundant |-> collapse_redundant,
                  collapse_limit |-> collapse_limit])
    /\ UNCHANGED <<files, by_name_cache, all_genes_cache, disk, msigdb, frames, esets>>

\* the constructor on the lists of up to MaxSets gene sets
Construct == ConstructFrom(InputLists)

\* the constructor on the lists of up to MaxWideSets gene sets
ConstructWide == ConstructFrom(WideLists)

\* the longest list of genes handed to GeneSet(...), and the number of gene
\* sets made one by one
MaxGenes == 3
MaxObjects == 2

\* the lists of genes a caller hands to GeneSet: a gene may occur again
GeneLists == UNION {[1..n -> Genes] : n \in 0..MaxGenes}

\* GeneSet(name, genes, warn_if_empty=..)
NewGeneSet ==
    /\ Len(heap) < MaxObjects
    /\ \E name \in Names, genes \in GeneLists, warn_if_empty \in BOOLEAN :
        LET r == GeneSetInit(name, genes, NoneV, warn_if_empty, NoneV)
        IN /\ heap' = Append(heap, r.obj)
           /\ warnings' = r.warns
           /\ last' = [op |-> "GeneSet", src |-> 0, res |-> 0, err |-> "",
                       obj |-> Len(heap) + 1, name |-> name, genes |-> genes,
                       warn_if_empty |-> warn_if_empty]
    /\ UNCHANGED <<colls, files, by_name_cache, all_genes_cache, disk, msigdb, frames, esets>>

\* ------------------------------------------------------- derived collections
\* a number or float('Inf')
Fin(k) == [inf |-> FALSE, n |-> k]
Inf == [inf |-> TRUE, n |-> 0]
Leq(a, b) == IF b.inf THEN TRUE ELSE IF a.inf THEN FALSE ELSE a.n <= b.n

\* an argument, or its default when it is omitted
Default(arg, d) == IF arg = NoneV THEN d ELSE arg[1]

\* GeneSets(S) as trim, extract and subset call it, on a set S of gene sets:
\* every argument but gene_sets has its default
FromSet(h, S, call) ==
    \E inp \in Perms(S) :
        \E kept \in KeptOrders(h, inp, TRUE) :
            Made(GeneSetsInit(h, inp, "", FALSE, TRUE, NoneV, "", DefaultCollapseLimit, kept), call)

\* the condition of trim's comprehension on a gene set of n genes
TrimKeeps(n, min_genes, max_genes) == Leq(min_genes, Fin(n)) /\ Leq(Fin(n), max_genes)

\* the set trim's comprehension builds
TrimSet(h, c, min_genes, max_genes) ==
    Range(DedupFirst(h, SelectSeq(c.gene_sets,
        LAMBDA id : TrimKeeps(Cardinality(h[id].genes), min_genes, max_genes))))

TrimBounds == {NoneV} \cup {Some(Fin(k)) : k \in 0..Cardinality(Genes)}

\* GeneSets.trim(min_genes=0, max_genes=float('Inf'))
Trim ==
    /\ Len(colls) < MaxColls
    /\ \E src \in DOMAIN colls, min_arg \in TrimBounds, max_arg \in TrimBounds \cup {Some(Inf)} :
        FromSet(heap,
                TrimSet(heap, colls[src], Default(min_arg, Fin(0)), Default(max_arg, Inf)),
                [op |-> "trim", src |-> src, res |-> Len(colls) + 1, err |-> "",
                 min_genes |-> min_arg, max_genes |-> max_arg])
    /\ UNCHANGED <<files, by_name_cache, all_genes_cache, disk, msigdb, frames, esets>>

\* the set extract's comprehension builds
ExtractSet(h, c, set_names) ==
    Range(DedupFirst(h, SelectSeq(c.gene_sets, LAMBDA id : h[id].name \in set_names)))

\* GeneSets.extract(set_names)
Extract ==
    /\ Len(colls) < MaxColls
    /\ \E src \in DOMAIN colls, set_names \in SUBSET Names :
        FromSet(heap, ExtractSet(heap, colls[src], set_names),
                [op |-> "extract", src |-> src, res |-> Len(colls) + 1, err |-> "",
                 set_names |-> set_names])
    /\ UNCHANGED <<files, by_name_cache, all_genes_cache, disk, msigdb, frames, esets>>

\* floats that are ratios of small integers: <<k, n>> is k / n
Floors == {<<1, 2>>, <<1, 1>>}
Geq(p, q) == p[1] * q[2] >= q[1] * p[2]

\* subset's genes_in_overlap
Overlap(o, genes) == o.genes \cap genes

\* subset's representativeness: len(genes_in_overlap) / len(gene_set.genes)
Representativeness(o, genes) == <<Cardinality(Overlap(o, genes)), Cardinality(o.genes)>>

\* subset's comprehension without its condition
SubsetKeepsAll(o, genes, min_representation) == TRUE

\* the condition of subset's comprehension
SubsetKeeps(o, genes, min_representation) == Geq(Representativeness(o, genes), min_representation)

\* the division in subset's comprehension raises on a gene set without genes
SubsetRaises(h, c) == \E i \in 1..Len(c.gene_sets) : Cardinality(h[c.gene_sets[i]].genes) = 0

\* the gene sets subset's comprehension makes, in the order of gene_sets
SubsetMade(h, c, genes, min_representation) ==
    LET passing == SelectSeq(c.gene_sets, LAMBDA id : SubsetKeeps(h[id], genes, min_representation))
    IN [i \in 1..Len(passing) |->
          GeneSetInit(h[passing[i]].name, SetToSeq(Overlap(h[passing[i]], genes)), NoneV, FALSE,
                      Some(Representativeness(h[passing[i]], genes))).obj]

\* a call that raised: nothing is made
Raised(call) ==
    /\ last' = call
    /\ warnings' = <<>>
    /\ UNCHANGED <<heap, colls>>

\* GeneSets.subset(genes, min_representation=0)
Subset ==
    /\ Len(colls) < MaxColls
    /\ \E src \in DOMAIN colls, genes \in Universes, floor \in {NoneV} \cup {Some(f) : f \in Floors} :
        LET call == [op |-> "subset", src |-> src, res |-> Len(colls) + 1, err |-> "",
                     genes |-> genes, min_representation |-> floor]
            made == SubsetMade(heap, colls[src], genes, Default(floor, <<0, 1>>))
            h == heap \o made
            new == [i \in 1..Len(made) |-> Len(heap) + i]
        IN IF SubsetRaises(heap, colls[src])
           THEN Raised([call EXCEPT !.res = 0, !.err = "ZeroDivisionError"])
           ELSE FromSet(h, Range(DedupFirst(h, new)), call)
    /\ UNCHANGED <<files, by_name_cache, all_genes_cache, disk, msigdb, frames, esets>>

\* GeneSets.collapse_redundant(sep)
CollapseRedundant ==
    /\ Len(colls) < MaxColls
    /\ \E src \in DOMAIN colls, sep \in {"", "|"} :
        Made(GeneSetsInit(heap, colls[src].gene_sets, "", FALSE, TRUE, NoneV, sep,
                          DefaultCollapseLimit,
                          CHOOSE k \in KeptOrders(heap, colls[src].gene_sets, TRUE) : TRUE),
             [op |-> "collapse_redundant", src |-> src, res |-> Len(colls) + 1, err |-> "",
              sep |-> sep])
    /\ UNCHANGED <<files, by_name_cache, all_genes_cache, disk, msigdb, frames, esets>>

\* the name-rewriting functions handed to format_names
Formatters == {"same", "prefix", "constant"}
ApplyFormatter(formatter, o) ==
    IF formatter = "same" THEN o.name
    ELSE IF formatter = "prefix" THEN "n:" \o o.name
    ELSE "n"

\* the objects deepcopy(self) makes of the members, in the order of gene_sets
DeepCopyMembers(h, c) == [i \in 1..Len(c.gene_sets) |-> h[c.gene_sets[i]]]

\* format_names working on self instead of a copy
FormatTargetInPlace(h, c) == [heap |-> h, coll |-> c]

\* the collection format_names works on: a deep copy of self
FormatTarget(h, c) ==
    [heap |-> h \o DeepCopyMembers(h, c),
     coll |-> [c EXCEPT !.gene_sets = [i \in 1..Len(c.gene_sets) |-> Len(h) + i]]]

\* GeneSets.format_names(formatter)
FormatNames ==
    /\ Len(colls) < MaxColls
    /\ \E src \in DOMAIN colls, formatter \in Formatters :
        LET t == FormatTarget(heap, colls[src])
            ids == Range(t.coll.gene_sets)
        IN /\ heap' = [id \in DOMAIN t.heap |->
                         IF id \in ids
                         THEN [t.heap[id] EXCEPT !.name = ApplyFormatter(formatter, t.heap[id])]
                         ELSE t.heap[id]]
           /\ colls' = Append(colls, t.coll)
           /\ warnings' = <<>>
           /\ last' = [op |-> "format_names", src |-> src, res |-> Len(colls) + 1, err |-> "",
                       formatter |-> formatter]
    /\ UNCHANGED <<files, by_name_cache, all_genes_cache, disk, msigdb, frames, esets>>

\* ------------------------------------------------------------------ GMT files
\* a path is the sequence of its components
GmtPaths == {<<"tmp", "out.gmt">>}

\* Path(path).name
PathName(path) == path[Len(path)]

\* the line to_gmt writes for a gene set, as its tab-separated fields:
\* name + '\t' + '\t'.join(genes), where ''.join of no genes is ''
GmtLine(name, genes) == <<name>> \o (IF genes = <<>> THEN <<"">> ELSE genes)

\* the texts _to_gmt may write: a frozenset is iterated in any order
RECURSIVE GmtTexts(_, _)
GmtTexts(h, gs) ==
    IF gs = <<>> THEN {<<>>}
    ELSE {<<GmtLine(h[gs[1]].name, p)>> \o rest :
             p \in Perms(h[gs[1]].genes), rest \in GmtTexts(h, Tail(gs))}

\* GeneSets.to_gmt(path)
ToGmt ==
    /\ \E src \in DOMAIN colls, path \in GmtPaths :
       \E text \in GmtTexts(heap, colls[src].gene_sets) :
        /\ files' = [p \in DOMAIN files \cup {path} |-> IF p = path THEN text ELSE files[p]]
        /\ last' = [op |-> "to_gmt", src |-> src, res |-> 0, err |-> "", path |-> path]
    /\ warnings' = <<>>
    /\ UNCHANGED <<heap, colls, by_name_cache, all_genes_cache, disk, msigdb, frames, esets>>

\* line.strip().split('\t') on the fields of a line (no field has white space
\* of its own): white space at either end goes, and with it the empty fields there
RECURSIVE StripLeft(_)
StripLeft(f) == IF f /= <<>> /\ f[1] = "" THEN StripLeft(Tail(f)) ELSE f
RECURSIVE StripRight(_)
StripRight(f) == IF f /= <<>> /\ f[Len(f)] = "" THEN StripRight(SubSeq(f, 1, Len(f) - 1)) ELSE f
StripSplit(f) == LET g == StripRight(StripLeft(f)) IN IF g = <<>> THEN <<"">> ELSE g

\* name, description, *ids = ... raises on fewer than two fields
GmtLineRaises(line) == Len(StripSplit(line)) < 2

\* GeneSet.from_gmt_line(line, warn_if_empty=False)
FromGmtLine(line) ==
    LET f == StripSplit(line)
    IN GeneSetInit(f[1], SubSeq(f, 3, Len(f)), Some(f[2]), FALSE, NoneV)

\* GeneSets.from_gmt(path, name=None, remove_empty=..)
FromGmt ==
    /\ Len(colls) < MaxColls
    /\ \E path \in DOMAIN files, remove_empty \in BOOLEAN :
        LET lines == files[path]
            call == [op |-> "from_gmt", src |-> 0, res |-> Len(colls) + 1, err |-> "",
                     path |-> path, remove_empty |-> remove_empty]
            made == [i \in 1..Len(lines) |-> FromGmtLine(lines[i])]
            h == heap \o [i \in 1..Len(lines) |-> made[i].obj]
            new == [i \in 1..Len(lines) |-> Len(heap) + i]
        IN IF \E i \in 1..Len(lines) : GmtLineRaises(lines[i])
           THEN Raised([call EXCEPT !.res = 0, !.err = "ValueError"])
           ELSE \E inp \in Perms(Range(DedupFirst(h, new))) :
                  \E kept \in KeptOrders(h, inp, remove_empty) :
                    LET r == GeneSetsInit(h, inp, PathName(path), FALSE, remove_empty, Some(path),
                                          "", DefaultCollapseLimit, kept)
                    IN Made([r EXCEPT !.warns = FlatWarns(made) \o r.warns], call)
    /\ UNCHANGED <<files, by_name_cache, all_genes_cache, disk, msigdb, frames, esets>>

\* ------------------------------------------------------------ the engines
\* the number of files a run may leave behind
MaxFiles == 3

\* the gene-set file a caller has: lines of name, description and genes
OriginPath == <<"data", "sets.gmt">>
MaxFileLines == 2
OriginLine(v) == <<v.name, "na">> \o SetToSeq(v.genes)
OriginTexts ==
    UNION {{[i \in 1..n |-> OriginLine(vals[i])] : vals \in [1..n -> InputGeneSets]} :
              n \in 0..MaxFileLines}

\* the name NamedTemporaryFile gives a new file
TempPath(fs, suffix) == <<"tmp", "tmp" \o ToString(Cardinality(DOMAIN fs)) \o suffix>>

\* the files fs with the file at path written anew
Written(fs, path, text) == [p \in DOMAIN fs \cup {path} |-> IF p = path THEN text ELSE fs[p]]

\* GSEA.solve_gene_sets on a collection: its path when it has one, else a
\* temporary file that to_gmt writes with the lines text
SolveGeneSetsOf(fs, c, text) ==
    IF c.path /= NoneV
    THEN [files |-> fs, value |-> c.path[1]]
    ELSE [files |-> Written(fs, TempPath(fs, ".gmt"), text), value |-> TempPath(fs, ".gmt")]

\* the names of the libraries an engine knows by itself
LibraryArgs == {"KEGG_2016"}

\* GSEA.solve_gene_sets(gene_sets)
SolveGeneSets ==
    /\ Cardinality(DOMAIN files) < MaxFiles
    /\ \/ \E src \in DOMAIN colls :
            \E text \in GmtTexts(heap, colls[src].gene_sets) :
              LET r == SolveGeneSetsOf(files, colls[src], text)
              IN /\ files' = r.files
                 /\ last' = [op |-> "solve_gene_sets", src |-> src, res |-> 0, err |-> "",
                             value |-> r.value]
       \/ \E library \in LibraryArgs :
            /\ last' = [op |-> "solve_gene_sets", src |-> 0, res |-> 0, err |-> "",
                        value |-> library]
            /\ UNCHANGED files
    /\ warnings' = <<>>
    /\ UNCHANGED <<heap, colls, by_name_cache, all_genes_cache, disk, msigdb, frames, esets>>

\* ------------------------------------------------------------ ExpressionSet
\* the most samples (columns) of an expression table, and the number of
\* ExpressionSet instances alive in one run
MaxSamples == 3
MaxEsets == 2

\* a class label is the sequence of its words: 'Breast cancer' has a space
Labels == {<<"Control">>, <<"Breast", "cancer">>}

\* the genes in the index of the table
TableIndex == <<"g1", "g2">>

\* a column of a table: its label and the type of its values
SampleColumn(i) == [name |-> "s" \o ToString(i), kind |-> "float"]
DescriptionColumn == [name |-> "Description", kind |-> "str"]

\* ExpressionSet.__init__(data, classes): data is the id of a table, which the
\* instance refers to and does not copy
ExpressionSetInit(fr, data, classes) ==
    IF Len(fr[data].columns) /= Len(classes)
    THEN [err |-> "ValueError", eset |-> NoneV]
    ELSE [err |-> "", eset |-> Some([joined |-> data, classes |-> classes])]

\* the elements of s, each once, in the order they first occur
Unique(s) == Pick(s, {i \in 1..Len(s) : \A j \in 1..(i - 1) : s[j] /= s[i]})

\* ExpressionSet.safe_classes: cls.replace(' ', '_')
SafeClasses(e) == [i \in 1..Len(e.classes) |-> Join(e.classes[i], "_")]

\* the lines to_cls writes, each as its space-separated fields
ClsText(e) ==
    LET classes == SafeClasses(e)
    IN <<<<ToString(Len(classes)), ToString(Cardinality(Range(classes))), "1">>,
         <<"#">> \o Unique(classes),
         classes>>

\* expression_data['Description'] = 'na' on the columns of a table: a new
\* column at the end, or new values for the column of that label
WithDescription(columns) ==
    IF \E i \in 1..Len(columns) : columns[i].name = DescriptionColumn.name
    THEN [i \in 1..Len(columns) |->
            IF columns[i].name = DescriptionColumn.name THEN DescriptionColumn ELSE columns[i]]
    ELSE Append(columns, DescriptionColumn)

\* the table to_txt prints: expression_data[['Description', *columns]], where
\* columns are the labels the table had before the assignment
Selected(columns) ==
    <<DescriptionColumn>>
    \o [i \in 1..Len(columns) |->
          IF columns[i].name = DescriptionColumn.name THEN DescriptionColumn ELSE columns[i]]

\* savetxt formats every column after the description with %f and raises on
\* a value that is not a number
SavetxtRaises(selected) == \E k \in 2..Len(selected) : selected[k].kind /= "float"

\* the lines to_txt writes for the table of the given columns, each as its
\* tab-separated fields: the header, and the rows unless savetxt raises
TxtText(index, columns) ==
    LET selected == Selected(columns)
    IN <<<<"gene">> \o [k \in 1..Len(selected) |-> selected[k].name]>>
       \o (IF SavetxtRaises(selected) THEN <<>>
           ELSE [r \in 1..Len(index) |->
                   <<index[r], "na">> \o [k \in 1..(Len(selected) - 1) |-> "%f"]])

\* the first lines of to_gct: the version and the size of the table
GctHead(index, columns) == <<<<"#1.2">>, <<ToString(Len(index)), ToString(Len(columns))>>>>

\* to_gct hands self.joined itself to to_txt, whose assignment of the
\* description column is then made on the table of the instance
ToGctOn(fr, e) ==
    LET t == fr[e.joined]
    IN [frames |-> [fr EXCEPT ![e.joined].columns = WithDescription(t.columns)],
        text |-> GctHead(t.index, t.columns) \o TxtText(t.index, t.columns),
        err |-> IF SavetxtRaises(Selected(t.columns)) THEN "TypeError" ELSE ""]

\* the files a caller opens for to_cls, to_gct and to_txt
OutPath(suffix) == <<"out", "data" \o suffix>>

\* a call on the expression set e that made no new instance
Called(op, e, err) == [op |-> op, src |-> 0, res |-> 0, err |-> err, eset |-> e]

\* ExpressionSet.to_cls(f)
ToCls ==
    /\ \E e \in DOMAIN esets :
        /\ files' = Written(files, OutPath(".cls"), ClsText(esets[e]))
        /\ last' = Called("to_cls", e, "")
    /\ warnings' = <<>>
    /\ UNCHANGED <<heap, colls, by_name_cache, all_genes_cache, disk, msigdb, frames, esets>>

\* ExpressionSet.to_gct(f)
ToGct ==
    /\ \E e \in DOMAIN esets :
        LET r == ToGctOn(frames, esets[e])
        IN /\ frames' = r.frames
           /\ files' = Written(files, OutPath(".gct"), r.text)
           /\ last' = Called("to_gct", e, r.err)
    /\ warnings' = <<>>
    /\ UNCHANGED <<heap, colls, by_name_cache, all_genes_cache, disk, msigdb, esets>>

\* ExpressionSet.to_txt(f): the table is copied first
ToTxt ==
    /\ \E e \in DOMAIN esets :
        LET t == frames[esets[e].joined]
        IN /\ files' = Written(files, OutPath(".txt"), TxtText(t.index, t.columns))
           /\ last' = Called("to_txt", e,
                             IF SavetxtRaises(Selected(t.columns)) THEN "TypeError" ELSE "")
    /\ warnings' = <<>>
    /\ UNCHANGED <<heap, colls, by_name_cache, all_genes_cache, disk, msigdb, frames, esets>>

\* ExpressionSet.contrast(case, control); the mask has one entry per class
\* label and cannot index a table of another number of columns
Contrast ==
    /\ Len(esets) < MaxEsets
    /\ \E e \in DOMAIN esets, case \in Labels, control \in Labels :
        LET classes == esets[e].classes
            t == frames[esets[e].joined]
            mask == {i \in 1..Len(classes) : classes[i] \in {case, control}}
            call == [op |-> "contrast", src |-> 0, res |-> 0, err |-> "", eset |-> e,
                     case |-> case, control |-> control, made |-> 0]
        IN IF ~(case \in Range(classes) /\ control \in Range(classes))
           THEN /\ last' = [call EXCEPT !.err = "AssertionError"]
                /\ UNCHANGED <<frames, esets>>
           ELSE IF Len(t.columns) /= Len(classes)
           THEN /\ last' = [call EXCEPT !.err = "IndexError"]
                /\ UNCHANGED <<frames, esets>>
           ELSE LET fr == Append(frames, [t EXCEPT !.columns = Pick(t.columns, mask)])
                    r == ExpressionSetInit(fr, Len(fr), Pick(classes, mask))
                IN /\ frames' = fr
                   /\ esets' = esets \o r.eset
                   /\ last' = [call EXCEPT !.err = r.err, !.made = Len(esets) + 1]
    /\ warnings' = <<>>
    /\ UNCHANGED <<heap, colls, files, by_name_cache, all_genes_cache, disk, msigdb>>

\* ------------------------------------------------------------ running GSEA
\* GSEA.prepare_files(expression_data): to_cls into one temporary file, then
\* to_gct into another
PrepareFilesOn(fs, fr, e) ==
    LET cls == TempPath(fs, ".cls")
        fs1 == Written(fs, cls, ClsText(e))
        gct == TempPath(fs1, ".gct")
        r == ToGctOn(fr, e)
    IN [files |-> Written(fs1, gct, r.text), frames |-> r.frames, err |-> r.err,
        data_path |-> gct, classes_path |-> cls]

\* GSEA.prepare_files(expression_data)
PrepareFiles ==
    /\ Cardinality(DOMAIN files) < MaxFiles
    /\ \E e \in DOMAIN esets :
        LET r == PrepareFilesOn(files, frames, esets[e])
        IN /\ files' = r.files
           /\ frames' = r.frames
           /\ last' = Called("prepare_files", e, r.err)
    /\ warnings' = <<>>
    /\ UNCHANGED <<heap, colls, by_name_cache, all_genes_cache, disk, msigdb, esets>>

\* GSEApy.metrics_using_variance, and a metric that is not among them
MetricsUsingVariance == {"signal_to_noise", "t_test"}
Metrics == MetricsUsingVariance \cup {"log2_ratio_of_classes"}

\* GSEA.has_enough_samples_for_metric: both branches return True
HasEnoughSamplesForMetric(e, metric) == IF metric \in MetricsUsingVariance THEN TRUE ELSE TRUE

\* what the external tool leaves behind: a report, or nothing to read
ToolOutcomes == {"report", "no report"}

\* GSEApy.run(expression_data, gene_sets, metric) from the check of the
\* samples to the reading of the report; sets is the file or library name
\* that solve_gene_sets gave and fs the files after it
RunOn(fs, sets, e, metric, outcome, call) ==
    IF ~HasEnoughSamplesForMetric(esets[e], metric)
    THEN /\ last' = [call EXCEPT !.err = "GSEANotEnoughSamples"]
         /\ warnings' = <<[kind |-> "too_few_samples", metric |-> metric]>>
         /\ UNCHANGED <<files, frames>>
    ELSE LET p == PrepareFilesOn(fs, frames, esets[e])
         IN /\ files' = p.files
            /\ frames' = p.frames
            /\ warnings' = <<>>
            /\ last' = IF p.err /= ""
                       THEN [call EXCEPT !.err = p.err, !.gmt = Some(sets)]
                       ELSE [call EXCEPT !.invoked = TRUE,
                                         !.gmt = Some(sets),
                                         !.data = Some(p.data_path),
                                         !.cls = Some(p.classes_path),
                                         !.err = IF outcome = "report" THEN ""
                                                 ELSE "FileNotFoundError"]

\* GSEApy.run(expression_data, gene_sets=.., metric=..)
Run ==
    /\ Cardinality(DOMAIN files) < MaxFiles
    /\ \E e \in DOMAIN esets, metric \in Metrics, outcome \in ToolOutcomes :
        LET call == [op |-> "run", src |-> 0, res |-> 0, err |-> "", eset |-> e,
                     metric |-> metric, invoked |-> FALSE,
                     gmt |-> NoneV, data |-> NoneV, cls |-> NoneV]
        IN \/ \E src \in DOMAIN colls :
                \E text \in GmtTexts(heap, colls[src].gene_sets) :
                  LET g == SolveGeneSetsOf(files, colls[src], text)
                  IN RunOn(g.files, g.value, e, metric, outcome, [call EXCEPT !.src = src])
           \/ \E library \in LibraryArgs :
                RunOn(files, library, e, metric, outcome, call)
    /\ UNCHANGED <<heap, colls, by_name_cache, all_genes_cache, disk, msigdb, esets>>

\* --------------------------------------------------------- cached properties
\* what lru_cache tells two instances apart by: __hash__ is over the name and
\* the tuple of members, whose own hash and equality are GeneSetKey.  The
\* cache holds 128 entries, more than a run makes.
CacheKey(h, c) == <<c.name, [i \in 1..Len(c.gene_sets) |-> GeneSetKey(h[c.gene_sets[i]])]>>

CacheHit(cache, key) == \E e \in cache : e.key = key
Cached(cache, key) == (CHOOSE e \in cache : e.key = key).value

\* the dict comprehension of gene_sets_by_name, as (name, object) pairs: a
\* later gene set of a name replaces an earlier one
ByName(h, c) ==
    {<<h[c.gene_sets[i]].name, c.gene_sets[i]>> : i \in
        {k \in 1..Len(c.gene_sets) :
            \A j \in (k + 1)..Len(c.gene_sets) : h[c.gene_sets[j]].name /= h[c.gene_sets[k]].name}}

\* gene_sets_by_name without its assertion
ByNameUnchecked(h, c) == TRUE

\* assert len(self.gene_sets) == len(by_name)
ByNameAssertion(h, c) == Len(c.gene_sets) = Cardinality(ByName(h, c))

\* GeneSets.gene_sets_by_name
GeneSetsByName ==
    /\ \E src \in DOMAIN colls :
        LET key == CacheKey(heap, colls[src])
            call == [op |-> "gene_sets_by_name", src |-> src, res |-> 0, err |-> "", value |-> {}]
        IN IF CacheHit(by_name_cache, key)
           THEN /\ last' = [call EXCEPT !.value = Cached(by_name_cache, key)]
                /\ UNCHANGED by_name_cache
           ELSE IF ~ByNameAssertion(heap, colls[src])
           THEN /\ last' = [call EXCEPT !.err = "AssertionError"]
                /\ UNCHANGED by_name_cache
           ELSE /\ last' = [call EXCEPT !.value = ByName(heap, colls[src])]
                /\ by_name_cache' =
                       by_name_cache \cup {[key |-> key, value |-> ByName(heap, colls[src])]}
    /\ warnings' = <<>>
    /\ UNCHANGED <<heap, colls, files, all_genes_cache, disk, msigdb, frames, esets>>

\* the body of all_genes
AllGenesOf(h, c) == UNION {h[c.gene_sets[i]].genes : i \in 1..Len(c.gene_sets)}

\* GeneSets.all_genes
AllGenes ==
    /\ \E src \in DOMAIN colls :
        LET key == CacheKey(heap, colls[src])
            call == [op |-> "all_genes", src |-> src, res |-> 0, err |-> "", value |-> {}]
        IN IF CacheHit(all_genes_cache, key)
           THEN /\ last' = [call EXCEPT !.value = Cached(all_genes_cache, key)]
                /\ UNCHANGED all_genes_cache
           ELSE /\ last' = [call EXCEPT !.value = AllGenesOf(heap, colls[src])]
                /\ all_genes_cache' =
                       all_genes_cache \cup {[key |-> key, value |-> AllGenesOf(heap, colls[src])]}
    /\ warnings' = <<>>
    /\ UNCHANGED <<heap, colls, files, by_name_cache, disk, msigdb, frames, esets>>

\* ----------------------------------------------- MolecularSignaturesDatabase
\* A path is the sequence of its components, a file name the sequence of its
\* parts: "c2.v7.1.symbols.gmt" is <<"c2", ".v", "7.1", ".", "symbols", ".gmt">>.
Root == <<<<"tests">>, <<"test_msigdb">>>>
WrongRoot == <<<<"wrong_dir_name">>>>
LibraryNames == {<<"c2">>, <<"c2", ".", "cp">>}
DiskVersions == {"7.0", "7.1"}
IdTypes == {"entrez", "symbols"}

\* the library files that may lie in the root; one has an id type parse_name does not know
LibraryFiles ==
    {n \o <<".v", v, ".", t, ".gmt">> : n \in LibraryNames, v \in DiskVersions, t \in IdTypes}
    \cup {<<"c2", ".v", "7.0", ".", "ensembl", ".gmt">>}

\* the metadata catalogs that may lie in the root or beside it
XmlPaths ==
    {Append(Root, <<"msigdb_v", "7.1", ".xml">>),
     Append(SubSeq(Root, 1, Len(Root) - 1), <<"msigdb_v", "7.1", ".xml">>)}

\* the version argument: a float such as 7.1, or a string such as '7.1'
VersionArgs ==
    {[float |-> TRUE, whole |-> 7, tenths |-> t, text |-> ""] : t \in {0, 1}}
    \cup {[float |-> FALSE, whole |-> 0, tenths |-> 0, text |-> "7.1"]}

\* str(version)
Str(v) == IF v.float THEN ToString(v.whole) \o "." \o ToString(v.tenths) ELSE v.text

\* the file name with the id type and the version in each other's place
FileNameSwapped(name, version, id_type) == name \o <<".v", id_type, ".", version, ".gmt">>

\* f'{gene_sets}.v{self.version}.{id_type}.gmt'
FileName(name, version, id_type) == name \o <<".v", version, ".", id_type, ".gmt">>

\* glob's '*.v{version}.*.gmt' on a file name
GlobMatches(f, version) ==
    /\ f[Len(f)] = ".gmt"
    /\ \E i \in 2..(Len(f) - 2) : f[i] = ".v" /\ f[i + 1] = version /\ f[i + 2] = "."

\* where parse_name's pattern matches: after the shortest name
ParseAt(f, version) ==
    {i \in 0..(Len(f) - 5) :
        /\ f[i + 1] = ".v" /\ f[i + 2] = version /\ f[i + 3] = "."
        /\ f[i + 4] \in IdTypes /\ f[i + 5] = ".gmt"}

\* parse_name raises on a name its pattern does not match
ParseRaises(f, version) == ParseAt(f, version) = {}

\* MolecularSignaturesDatabase.parse_name
ParseName(f, version) ==
    LET i == CHOOSE k \in ParseAt(f, version) : \A m \in ParseAt(f, version) : k <= m
    IN [name |-> SubSeq(f, 1, i), id_type |-> f[i + 4]]

\* the files of a directory
FilesIn(d, dir) == {p[Len(p)] : p \in {q \in d : Len(q) = Len(dir) + 1 /\ SubSeq(q, 1, Len(dir)) = dir}}

\* the first of path and path.parent that holds the catalog of the version
XmlPath(d, path, version) ==
    LET name == <<"msigdb_v", version, ".xml">>
    IN IF Append(path, name) \in d THEN Some(Append(path, name))
       ELSE IF Append(SubSeq(path, 1, Len(path) - 1), name) \in d
       THEN Some(Append(SubSeq(path, 1, Len(path) - 1), name))
       ELSE NoneV

\* MolecularSignaturesDatabase(path, version)
DbConstruct ==
    /\ msigdb = NoneV
    /\ \E path \in {Root, WrongRoot}, version \in VersionArgs :
        LET call == [op |-> "MolecularSignaturesDatabase", src |-> 0, res |-> 0, err |-> "",
                     path |-> path, version |-> version]
            matched == {f \in FilesIn(disk, path) : GlobMatches(f, Str(version))}
        IN IF path \notin disk
           THEN /\ last' = [call EXCEPT !.err = "ValueError"]
                /\ UNCHANGED msigdb
           ELSE IF \E f \in matched : ParseRaises(f, Str(version))
           THEN /\ last' = [call EXCEPT !.err = "AttributeError"]
                /\ UNCHANGED msigdb
           ELSE /\ last' = call
                /\ msigdb' = Some([path |-> path,
                                   version |-> Str(version),
                                   gene_sets |-> {ParseName(f, Str(version)) : f \in matched},
                                   xml_path |-> XmlPath(disk, path, Str(version))])
    /\ warnings' = <<>>
    /\ UNCHANGED <<heap, colls, files, by_name_cache, all_genes_cache, disk, frames, esets>>

\* the path resolve looks for
ResolvePath(db, name, id_type) == Append(db.path, FileName(name, db.version, id_type))

\* MolecularSignaturesDatabase.resolve(gene_sets, id_type)
Resolve ==
    /\ msigdb /= NoneV
    /\ \E name \in LibraryNames, id_type \in IdTypes \cup {"ensembl"} :
        LET path == ResolvePath(msigdb[1], name, id_type)
            call == [op |-> "resolve", src |-> 0, res |-> 0, err |-> "",
                     name |-> name, id_type |-> id_type, value |-> NoneV, message |-> <<>>]
        IN IF path \in disk
           THEN last' = [call EXCEPT !.value = Some(path)]
           ELSE last' = [call EXCEPT !.err = "ValueError",
                                     !.message = <<"Unknown library: ", path, "!">>]
    /\ warnings' = <<>>
    /\ UNCHANGED <<heap, colls, files, by_name_cache, all_genes_cache, disk, msigdb, frames, esets>>

\* ------------------------------------------------------------ specifications
NoCall == [op |-> "", src |-> 0, res |-> 0, err |-> ""]

\* nothing has been constructed
Init ==
    /\ heap = <<>>
    /\ colls = <<>>
    /\ files = <<>>
    /\ by_name_cache = {}
    /\ all_genes_cache = {}
    /\ warnings = <<>>
    /\ last = NoCall
    /\ disk = {Root}
    /\ msigdb = NoneV
    /\ frames = <<>>
    /\ esets = <<>>

\* the members of a collection alone on the heap, the objects that only the
\* caller's list referred to collected
OnlyMembers(h, c) ==
    [heap |-> [i \in 1..Len(c.gene_sets) |-> h[c.gene_sets[i]]],
     coll |-> [c EXCEPT !.gene_sets = [i \in 1..Len(c.gene_sets) |-> i]]]

\* one collection has been constructed, by any call of the constructor
InitConstructed ==
    /\ \E vals \in InputLists, remove_empty \in BOOLEAN,
          collapse_redundant \in {"", "|"}, collapse_limit \in {1, DefaultCollapseLimit} :
        LET h == [i \in 1..Len(vals) |->
                    GeneSetInit(vals[i].name, SetToSeq(vals[i].genes), NoneV, FALSE, NoneV).obj]
            inp == [i \in 1..Len(vals) |-> i]
        IN \E kept \in KeptOrders(h, inp, remove_empty) :
            LET r == GeneSetsInit(h, inp, "", FALSE, remove_empty, NoneV,
                                  collapse_redundant, collapse_limit, kept)
                m == OnlyMembers(r.heap, r.coll)
            IN /\ heap = m.heap
               /\ colls = <<m.coll>>
    /\ files = <<>>
    /\ by_name_cache = {}
    /\ all_genes_cache = {}
    /\ warnings = <<>>
    /\ last = NoCall
    /\ disk = {Root}
    /\ msigdb = NoneV
    /\ frames = <<>>
    /\ esets = <<>>

\* the constructor
Next ==
    \/ Construct

Spec == Init /\ [][Next]_vars

\* the operations that derive a collection from a constructed one
NextDerive ==
    \/ Trim
    \/ Extract
    \/ Subset
    \/ CollapseRedundant
    \/ FormatNames

SpecDerive == InitConstructed /\ [][NextDerive]_vars

\* writing a constructed collection and reading it back
NextGmt ==
    \/ ToGmt
    \/ FromGmt

SpecGmt == InitConstructed /\ [][NextGmt]_vars

\* the cached properties of a constructed collection and of its renamed copies
NextCached ==
    \/ FormatNames
    \/ GeneSetsByName
    \/ AllGenes

SpecCached == InitConstructed /\ [][NextCached]_vars

\* a database directory with any of the library files and catalogs
InitDb ==
    /\ heap = <<>>
    /\ colls = <<>>
    /\ files = <<>>
    /\ by_name_cache = {}
    /\ all_genes_cache = {}
    /\ warnings = <<>>
    /\ last = NoCall
    /\ \E libs \in SUBSET LibraryFiles, xmls \in SUBSET XmlPaths :
        disk = {Root} \cup {Append(Root, f) : f \in libs} \cup xmls
    /\ msigdb = NoneV
    /\ frames = <<>>
    /\ esets = <<>>

NextDb ==
    \/ DbConstruct
    \/ Resolve

SpecDb == InitDb /\ [][NextDb]_vars

\* the constructor on longer lists
NextWide ==
    \/ ConstructWide

SpecWide == Init /\ [][NextWide]_vars

\* a gene-set file lies on the disk and nothing has been constructed
InitGmtFile ==
    /\ heap = <<>>
    /\ colls = <<>>
    /\ \E text \in OriginTexts : files = Written(<<>>, OriginPath, text)
    /\ by_name_cache = {}
    /\ all_genes_cache = {}
    /\ warnings = <<>>
    /\ last = NoCall
    /\ disk = {Root}
    /\ msigdb = NoneV
    /\ frames = <<>>
    /\ esets = <<>>

\* reading a gene-set file, deriving a collection and handing it to an engine
NextSolve ==
    \/ FromGmt
    \/ Trim
    \/ FormatNames
    \/ SolveGeneSets

SpecSolve == InitGmtFile /\ [][NextSolve]_vars

\* the tables a caller has: samples s1, s2, .. of the genes of TableIndex
SampleTable(n) == [index |-> TableIndex, columns |-> [i \in 1..n |-> SampleColumn(i)]]

\* one ExpressionSet has been constructed on a table, with a class label for
\* each of its samples
InitExpression ==
    /\ heap = <<>>
    /\ colls = <<>>
    /\ files = <<>>
    /\ by_name_cache = {}
    /\ all_genes_cache = {}
    /\ warnings = <<>>
    /\ last = NoCall
    /\ disk = {Root}
    /\ msigdb = NoneV
    /\ \E n \in 1..MaxSamples : \E classes \in [1..n -> Labels] :
        /\ frames = <<SampleTable(n)>>
        /\ esets = ExpressionSetInit(frames, 1, classes).eset

\* serialising an expression set and selecting groups of it
NextExpression ==
    \/ ToCls
    \/ ToGct
    \/ ToTxt
    \/ Contrast
    \/ PrepareFiles

SpecExpression == InitExpression /\ [][NextExpression]_vars

\* the collections an engine is given: of at most one gene set, without a path
EngineLists == UNION {[1..n -> InputGeneSets] : n \in 0..1}

\* an ExpressionSet and a collection have been constructed
InitEngine ==
    /\ \E vals \in EngineLists :
        LET h == [i \in 1..Len(vals) |->
                    GeneSetInit(vals[i].name, SetToSeq(vals[i].genes), NoneV, FALSE, NoneV).obj]
            inp == [i \in 1..Len(vals) |-> i]
        IN \E kept \in KeptOrders(h, inp, TRUE) :
            LET r == GeneSetsInit(h, inp, "", FALSE, TRUE, NoneV, "", DefaultCollapseLimit, kept)
                m == OnlyMembers(r.heap, r.coll)
            IN /\ heap = m.heap
               /\ colls = <<m.coll>>
    /\ files = <<>>
    /\ by_name_cache = {}
    /\ all_genes_cache = {}
    /\ warnings = <<>>
    /\ last = NoCall
    /\ disk = {Root}
    /\ msigdb = NoneV
    /\ \E n \in 1..MaxSamples : \E classes \in [1..n -> Labels] :
        /\ frames = <<SampleTable(n)>>
        /\ esets = ExpressionSetInit(frames, 1, classes).eset

\* runs of the engine
NextEngine ==
    \/ Run

SpecEngine == InitEngine /\ [][NextEngine]_vars

\* gene sets made one by one from lists of genes
NextGeneSet ==
    \/ NewGeneSet

SpecGeneSet == Init /\ [][NextGeneSet]_vars

\* ------------------------------------------------------------------ claims
\* the collections and objects the last call worked on
Src == colls[last.src]
Res == colls[last.res]
Contents(c) == {GeneSetKey(heap[id]) : id \in Range(c.gene_sets)}
InputIsEmpty(i) == heap[last.input[i]].genes = {}
Warned(kind) == \E i \in 1..Len(warnings) : warnings[i].kind = kind

\* C1: writing a collection with to_gmt and reading the file back with
\* from_gmt gives, for each gene-set name, the gene content it has in the
\* collection.
C1_RoundTrip ==
    (/\ last.op = "from_gmt"
     /\ files[last.path] \in GmtTexts(heap, colls[1].gene_sets))
    => /\ last.err = ""
       /\ \A n \in {heap[id].name : id \in Range(colls[1].gene_sets)} :
            {heap[id].genes : id \in {m \in Range(Res.gene_sets) : heap[m].name = n}}
            = {heap[id].genes : id \in {m \in Range(colls[1].gene_sets) : heap[m].name = n}}

\* C2: trim(min_genes=a, max_genes=b) with a <= b returns exactly the gene sets
\* of the source whose gene count n satisfies a <= n <= b, an omitted min_genes
\* being 0 and an omitted max_genes infinity.
C2_TrimExact ==
    last.op = "trim" =>
        LET a == IF last.min_genes = NoneV THEN 0 ELSE last.min_genes[1].n
            unbounded == last.max_genes = NoneV \/ last.max_genes[1].inf
            b == IF unbounded THEN 0 ELSE last.max_genes[1].n
        IN (unbounded \/ a <= b) =>
            Contents(Res) =
                {GeneSetKey(heap[id]) : id \in
                    {m \in Range(Src.gene_sets) :
                        /\ a <= Cardinality(heap[m].genes)
                        /\ (unbounded \/ Cardinality(heap[m].genes) <= b)}}

\* C3: for a universe U that holds all genes of C, C.subset(U) completes and
\* returns the names of C, each with the gene content it has in C.
C3_SubsetOfSuperset ==
    (/\ last.op = "subset"
     /\ last.min_representation = NoneV
     /\ \A id \in Range(Src.gene_sets) : heap[id].genes \subseteq last.genes)
    => (last.err = "" /\ Contents(Res) = Contents(Src))

\* C4: every gene set of the result of subset(universe, min_representation=r)
\* has the genes (original genes \cap universe) and the representativeness
\* |original genes \cap universe| / |original genes|, which is at least r.
C4_SubsetRepresentativeness ==
    (last.op = "subset" /\ last.err = "") =>
        LET r == IF last.min_representation = NoneV THEN <<0, 1>> ELSE last.min_representation[1]
        IN \A id \in Range(Res.gene_sets) :
            \E orig \in Range(Src.gene_sets) :
                /\ heap[orig].name = heap[id].name
                /\ heap[id].genes = heap[orig].genes \cap last.genes
                /\ heap[id].representativeness =
                       <<<<Cardinality(heap[orig].genes \cap last.genes), Cardinality(heap[orig].genes)>>>>
                /\ Cardinality(heap[orig].genes) > 0
                /\ Cardinality(heap[orig].genes \cap last.genes) * r[2]
                       >= r[1] * Cardinality(heap[orig].genes)

\* C4 happens: a floor of 1/2 kept a gene set that is half represented and
\* dropped another
C4_Witness ==
    /\ last.op = "subset" /\ last.err = ""
    /\ last.min_representation = Some(<<1, 2>>)
    /\ Len(Res.gene_sets) < Len(Src.gene_sets)
    /\ \E id \in Range(Res.gene_sets) : heap[id].representativeness = Some(<<1, 2>>)

\* C5: without collapsing, the length of the collection is the number of input
\* gene sets, less the number of empty input gene sets when remove_empty.
C5_LengthAccounted ==
    (last.op = "GeneSets" /\ ~Truthy(last.collapse_redundant)) =>
        Len(Res.gene_sets) =
            Len(last.input)
            - (IF last.remove_empty
               THEN Cardinality({i \in 1..Len(last.input) : InputIsEmpty(i)})
               ELSE 0)

C7_RedundancyWarningIff ==
    last.op = "GeneSets" =>
        (Warned("redundant")
         <=> /\ \E i, j \in 1..Len(last.input) :
                  /\ heap[last.input[i]].genes = heap[last.input[j]].genes
                  /\ heap[last.input[i]].name /= heap[last.input[j]].name
             /\ ~last.allow_redundant
             /\ ~Truthy(last.collapse_redundant))

\* C8: gene_sets_by_name raises when two gene sets of the collection share a
\* name, and otherwise returns a mapping with exactly one entry per gene set,
\* under that gene set's current name.
C8_ByNameUnique ==
    last.op = "gene_sets_by_name" =>
        IF \E i, j \in 1..Len(Src.gene_sets) :
              i /= j /\ heap[Src.gene_sets[i]].name = heap[Src.gene_sets[j]].name
        THEN last.err = "AssertionError"
        ELSE /\ last.err = ""
             /\ Cardinality(last.value) = Len(Src.gene_sets)
             /\ \A e \in last.value : heap[e[2]].name = e[1]
             /\ \A id \in Range(Src.gene_sets) :
                  \E e \in last.value :
                      e[1] = heap[id].name /\ GeneSetKey(heap[e[2]]) = GeneSetKey(heap[id])

\* C8 happens: the mapping of a collection of two gene sets was returned
C8_Witness ==
    /\ last.op = "gene_sets_by_name" /\ last.err = ""
    /\ Len(Src.gene_sets) = 2
    /\ Cardinality(last.value) = 2

\* C9: a call of trim, extract, subset, collapse_redundant or format_names
\* leaves every existing collection as it was: its gene_sets tuple, each
\* member's name and gene content, its name and its path.
C9_SourceUnchanged ==
    [][\A c \in DOMAIN colls :
         /\ c \in DOMAIN colls'
         /\ colls'[c].gene_sets = colls[c].gene_sets
         /\ colls'[c].name = colls[c].name
         /\ colls'[c].path = colls[c].path
         /\ \A id \in Range(colls[c].gene_sets) :
              /\ heap'[id].name = heap[id].name
              /\ heap'[id].genes = heap[id].genes]_vars

\* C9 happens: format_names returned a collection whose members are renamed
C9_Witness ==
    /\ last.op = "format_names"
    /\ Len(Res.gene_sets) > 0
    /\ \A i \in 1..Len(Res.gene_sets) :
         heap[Res.gene_sets[i]].name /= heap[Src.gene_sets[i]].name

\* C10: resolve(name, id_type) on a database of root R and version V returns
\* R/<name>.v<V>.<id_type>.gmt when that file exists and otherwise raises an
\* error whose message names that path; the file it returns is never of
\* another version or identifier type.
C10_ResolveExact ==
    last.op = "resolve" =>
        LET expected ==
                msigdb[1].path
                \o <<last.name \o <<".v", msigdb[1].version, ".", last.id_type, ".gmt">>>>
        IN /\ IF expected \in disk
              THEN last.err = "" /\ last.value = <<expected>>
              ELSE /\ last.err = "ValueError"
                   /\ last.value = <<>>
                   /\ last.message = <<"Unknown library: ", expected, "!">>
           /\ last.value /= <<>> =>
                LET f == last.value[1][Len(last.value[1])]
                IN /\ last.value[1] \in disk
                   /\ f[Len(f) - 3] = msigdb[1].version
                   /\ f[Len(f) - 1] = last.id_type

\* C10 happens: resolve returned a library of which the root holds another
\* version and another identifier type too
C10_Witness ==
    /\ last.op = "resolve"
    /\ last.value /= <<>>
    /\ \E v \in DiskVersions, t \in IdTypes :
         /\ v /= msigdb[1].version
         /\ t /= last.id_type
         /\ Append(Root, last.name \o <<".v", v, ".", last.id_type, ".gmt">>) \in disk
         /\ Append(Root, last.name \o <<".v", msigdb[1].version, ".", t, ".gmt">>) \in disk

\* C12: GeneSet stores the set of the input genes; when the input holds a gene
\* more than once, redundant_genes maps each such gene to the number of times
\* it occurs and a warning says so; when it does not, redundant_genes is None
\* and there is no such warning.
C12_GenesDeduplicated ==
    last.op = "GeneSet" =>
        LET g == last.genes
            o == heap[last.obj]
            times(x) == Cardinality({i \in 1..Len(g) : g[i] = x})
            repeated == {x \in Range(g) : times(x) > 1}
        IN /\ o.genes = Range(g)
           /\ IF repeated /= {}
              THEN /\ o.redundant_genes /= NoneV
                   /\ DOMAIN o.redundant_genes[1] = repeated
                   /\ \A x \in repeated : o.redundant_genes[1][x] = times(x)
                   /\ \E i \in 1..Len(warnings) :
                        /\ warnings[i].kind = "non_unique_genes"
                        /\ warnings[i].redundant_genes = o.redundant_genes[1]
              ELSE /\ o.redundant_genes = NoneV
                   /\ ~Warned("non_unique_genes")

\* C12 happens: a list that holds one gene twice and another once
C12_Witness ==
    /\ last.op = "GeneSet"
    /\ Len(last.genes) = 3
    /\ Cardinality(heap[last.obj].genes) = 2
    /\ heap[last.obj].redundant_genes /= NoneV
    /\ Warned("non_unique_genes")

\* C13: the value gene_sets_by_name or all_genes returns on an instance is
\* built from that instance's own member gene sets, never from the members of
\* another instance, equal or not.
C13_CachePerInstance ==
    /\ (last.op = "gene_sets_by_name" /\ last.err = "") =>
           \A e \in last.value : e[2] \in Range(Src.gene_sets)
    /\ last.op = "all_genes" => last.value = AllGenesOf(heap, Src)

\* C14: after construction with a non-empty separator as collapse_redundant,
\* whatever allow_redundant and remove_empty are, no two gene sets of the
\* collection have identical gene content: find_redundant() on it is empty.
C14_NoIdenticalAfterCollapse ==
    (last.op = "GeneSets" /\ Truthy(last.collapse_redundant)) =>
        /\ \A i, j \in 1..Len(Res.gene_sets) :
              i /= j => heap[Res.gene_sets[i]].genes /= heap[Res.gene_sets[j]].genes
        /\ FindRedundant(heap, Res.gene_sets) = <<>>

\* C15: after construction with remove_empty=True, whatever allow_redundant,
\* collapse_redundant and collapse_limit are, no gene set of the collection is
\* empty.
C15_NoEmptyAfterRemoval ==
    (last.op = "GeneSets" /\ last.remove_empty) =>
        \A id \in Range(Res.gene_sets) : heap[id].genes /= {}

\* the gene contents that more than one input gene set has, the input gene
\* sets of such a content, and their names in the order of the input
InputGroups == {c \in {heap[id].genes : id \in Range(last.input)} :
                   Cardinality({i \in 1..Len(last.input) : heap[last.input[i]].genes = c}) > 1}
InputAffected == {i \in 1..Len(last.input) : heap[last.input[i]].genes \in InputGroups}
InputGroupNames(c) ==
    LET idx == SortedSeq({i \in 1..Len(last.input) : heap[last.input[i]].genes = c})
    IN [k \in 1..Len(idx) |-> heap[last.input[idx[k]]].name]

\* the warning w lists every redundant group with its names and gene count
ListsVerbatim(w) ==
    /\ w.style = "verbatim"
    /\ Len(w.identical) = Cardinality(InputGroups)
    /\ \A c \in InputGroups :
         \E k \in 1..Len(w.identical) :
            w.identical[k] = [names |-> InputGroupNames(c), size |-> Cardinality(c)]

\* the warning w cites the number of redundant groups and of gene sets in them
Summarises(w) ==
    /\ w.style = "summary"
    /\ w.groups = Cardinality(InputGroups)
    /\ w.affected = Cardinality(InputAffected)

\* C16 as stated: an emitted redundancy warning lists the redundant groups
\* verbatim when there are at most 3 redundant groups and summarises them by
\* count when there are more than 3.
C16_VerbatimUpTo3Groups ==
    last.op = "GeneSets" =>
        \A i \in 1..Len(warnings) :
            warnings[i].kind = "redundant" =>
                IF Cardinality(InputGroups) <= 3
                THEN ListsVerbatim(warnings[i])
                ELSE Summarises(warnings[i])

\* C16, amended: an emitted redundancy warning lists the redundant groups
\* verbatim when the redundant groups hold at most 3 gene sets in total, and
\* otherwise cites the number of groups and the number of gene sets in them.
C16_VerbatimUpTo3GeneSets ==
    last.op = "GeneSets" =>
        \A i \in 1..Len(warnings) :
            warnings[i].kind = "redundant" =>
                IF Cardinality(InputAffected) <= 3
                THEN ListsVerbatim(warnings[i])
                ELSE Summarises(warnings[i])

\* C16 happens: two redundant groups of two gene sets each were summarised
C16_Witness ==
    /\ last.op = "GeneSets"
    /\ Cardinality(InputGroups) = 2
    /\ Cardinality(InputAffected) = 4
    /\ \E i \in 1..Len(warnings) :
         warnings[i].kind = "redundant" /\ warnings[i].style = "summary"

\* C17: the gene-set file solve_gene_sets hands to the engine for a collection
\* (its origin path when path is set, otherwise a temporary file) describes
\* exactly the gene sets of the collection: the same names, each with the same
\* gene content.
C17_SolvedFileMatches ==
    (last.op = "solve_gene_sets" /\ last.src /= 0) =>
        LET lines == files[last.value]
        IN /\ \A i \in 1..Len(lines) : ~GmtLineRaises(lines[i])
           /\ {GeneSetKey(FromGmtLine(lines[i]).obj) : i \in 1..Len(lines)} = Contents(Src)

\* C11: run with a metric that uses the variance on expression data with fewer
\* than 3 samples in some group raises GSEANotEnoughSamples, and the external
\* tool is not invoked.
C11_NotEnoughSamplesRaises ==
    (/\ last.op = "run"
     /\ last.metric \in {"signal_to_noise", "t_test"}
     /\ \E c \in Range(esets[last.eset].classes) :
          Cardinality({i \in 1..Len(esets[last.eset].classes) :
                          esets[last.eset].classes[i] = c}) < 3)
    => (last.err = "GSEANotEnoughSamples" /\ ~last.invoked)

\* C18: a call of to_cls, to_gct, to_txt, contrast or prepare_files leaves
\* every existing expression set as it was: its table has the same columns as
\* before, and as many columns as there are class labels.
C18_SerializationLeavesUnchanged ==
    [][\A e \in DOMAIN esets :
         /\ e \in DOMAIN esets'
         /\ esets'[e] = esets[e]
         /\ frames'[esets[e].joined].columns = frames[esets[e].joined].columns
         /\ Len(frames'[esets[e].joined].columns) = Len(esets[e].classes)]_vars
====
